---- MODULE Spec2Model ----
(***************************************************************************)
(* Model of RaspberryPiAutoTranslator (src/caludecorrecao.py): the capture *)
(* thread (_listen_continuously), the processing thread                    *)
(* (_process_audio_queue) and the control context (start_translation,      *)
(* stop_translation, set_default_target_language), sharing is_listening,   *)
(* audio_queue, processing_lock, default_target_lang and                   *)
(* last_detected_lang.  Every call of start_translation creates a new pair *)
(* of threads; the threads of run g are named by g.                        *)
(***************************************************************************)
EXTENDS Integers, Sequences, FiniteSets, TLC

\* ---- bounds of the model ----
MaxStarts == 2
MaxUtterances == 2
MaxReconfigs == 1

\* ---- program constants ----
\* self.detection_confidence = 0.8, in hundredths
detection_confidence == 80

Runs == 1..MaxStarts
Utterances == 1..MaxUtterances

\* Language codes the detectors can return and the default can be set to.
Langs == {"en", "es", "fr"}
NoLang == "None"

\* Confidences (hundredths) the fallback detection service can report.
Confidences == {50, 80, 81}

\* Texts: None, the empty string, the transcript of utterance n, and the
\* translation service's rendering of it.
NoText == [kind |-> "None", id |-> 0]
EmptyText == [kind |-> "empty", id |-> 0]
Transcript(n) == [kind |-> "transcript", id |-> n]
Rendering(n) == [kind |-> "rendering", id |-> n]

\* Python truthiness of Optional[str]: None and "" are false.
Truthy(t) == t.kind \notin {"None", "empty"}

VARIABLES
    is_listening,        \* self.is_listening
    default_target_lang, \* self.default_target_lang
    last_detected_lang,  \* self.last_detected_lang
    audio_queue,         \* self.audio_queue: the items, oldest first
    unfinished_tasks,    \* self.audio_queue.unfinished_tasks
    processing_lock,     \* self.processing_lock: 0 free, g held by processing thread g
    ctl,                 \* control context: where it is in start_translation
    starts,              \* number of start_translation calls so far
    reconfigs,           \* number of set_default_target_language calls so far
    captured,            \* number of utterances captured so far
    lpc,                 \* lpc[g]: position of listen_thread of run g
    ppc,                 \* ppc[g]: position of process_thread of run g
    loc,                 \* loc[g]: locals of process_thread g in its current cycle
    out,                 \* out[g]: console lines printed in the current cycle of g
    calls,               \* calls[g]: adapter calls made in the current cycle of g
    dequeued,            \* utterances in the order audio_queue.get returned them
    begun,               \* utterances in the order their cycle took the lock
    status               \* status[u]: "-", or how the cycle of utterance u ended

vars == <<is_listening, default_target_lang, last_detected_lang, audio_queue,
          unfinished_tasks, processing_lock, ctl, starts, reconfigs, captured,
          lpc, ppc, loc, out, calls, dequeued, begun, status>>

shared == <<is_listening, default_target_lang, last_detected_lang>>
control == <<ctl, starts, reconfigs>>
capture == <<captured, lpc>>

\* Locals of one cycle of _process_audio_queue; ddeq is the default target
\* language configured when the utterance was dequeued.
NoLocals ==
    [audio |-> 0, ddeq |-> NoLang, text |-> NoText, primary |-> "-",
     fallback |-> "-", fblang |-> NoLang, conf |-> 0, detected |-> NoLang,
     same |-> FALSE,
     dcmp |-> NoLang, dret |-> NoLang, target |-> NoLang,
     translation |-> "-", translated |-> NoText, spoke |-> "-"]

Line(kind, text) == [line |-> kind, text |-> text]
Call(svc, text, lang) == [svc |-> svc, text |-> text, lang |-> lang]

Init ==
    /\ is_listening = FALSE
    /\ default_target_lang = "es"   \* the constructor's default argument
    /\ last_detected_lang = NoLang
    /\ audio_queue = <<>>
    /\ unfinished_tasks = 0
    /\ processing_lock = 0
    /\ ctl = "idle"
    /\ starts = 0
    /\ reconfigs = 0
    /\ captured = 0
    /\ lpc = [g \in Runs |-> "unborn"]
    /\ ppc = [g \in Runs |-> "unborn"]
    /\ loc = [g \in Runs |-> NoLocals]
    /\ out = [g \in Runs |-> <<>>]
    /\ calls = [g \in Runs |-> <<>>]
    /\ dequeued = <<>>
    /\ begun = <<>>
    /\ status = [u \in Utterances |-> "-"]

\* ------------------------------------------------------------------------
\* Control context

\* start_translation up to thread start: set the flag, start both threads.
StartTranslation ==
    /\ ctl = "idle"
    /\ starts < MaxStarts
    /\ starts' = starts + 1
    /\ is_listening' = TRUE
    /\ lpc' = [lpc EXCEPT ![starts + 1] = "check"]
    /\ ppc' = [ppc EXCEPT ![starts + 1] = "check"]
    /\ ctl' = "main"
    /\ UNCHANGED <<default_target_lang, last_detected_lang, audio_queue,
                   unfinished_tasks, processing_lock, reconfigs, captured,
                   loc, out, calls, dequeued, begun, status>>

\* start_translation: `while self.is_listening: time.sleep(0.1)` falls through.
MainLoopExit ==
    /\ ctl = "main"
    /\ ~is_listening
    /\ ctl' = "idle"
    /\ UNCHANGED <<shared, audio_queue, unfinished_tasks, processing_lock,
                   starts, reconfigs, capture, ppc, loc, out, calls,
                   dequeued, begun, status>>

\* start_translation: KeyboardInterrupt in the main loop calls stop_translation.
KeyboardInterrupt ==
    /\ ctl = "main"
    /\ is_listening' = FALSE
    /\ ctl' = "joining"
    /\ UNCHANGED <<default_target_lang, last_detected_lang, audio_queue,
                   unfinished_tasks, processing_lock, starts, reconfigs,
                   capture, ppc, loc, out, calls, dequeued, begun, status>>

\* start_translation: both join(timeout=2) calls return, the threads having
\* ended or the timeouts having run out.
JoinReturn ==
    /\ ctl = "joining"
    /\ ctl' = "idle"
    /\ UNCHANGED <<shared, audio_queue, unfinished_tasks, processing_lock,
                   starts, reconfigs, capture, ppc, loc, out, calls,
                   dequeued, begun, status>>

\* stop_translation called from another context while the flag is on.
StopTranslation ==
    /\ is_listening
    /\ is_listening' = FALSE
    /\ UNCHANGED <<default_target_lang, last_detected_lang, audio_queue,
                   unfinished_tasks, processing_lock, control, capture, ppc,
                   loc, out, calls, dequeued, begun, status>>

SetDefaultTargetLanguage(target_lang) ==
    /\ reconfigs < MaxReconfigs
    /\ reconfigs' = reconfigs + 1
    /\ default_target_lang' = target_lang
    /\ UNCHANGED <<is_listening, last_detected_lang, audio_queue,
                   unfinished_tasks, processing_lock, ctl, starts, capture,
                   ppc, loc, out, calls, dequeued, begun, status>>

\* ------------------------------------------------------------------------
\* Capture thread of run g: _listen_continuously

\* Mutant of ListenCheck: the loop condition is not consulted (`while True:`).
ListenCheck_IgnoresFlag(g) ==
    /\ lpc[g] = "check"
    /\ lpc' = [lpc EXCEPT ![g] = "listen"]
    /\ UNCHANGED <<shared, audio_queue, unfinished_tasks, processing_lock,
                   control, captured, ppc, loc, out, calls,
                   dequeued, begun, status>>

\* `while self.is_listening:`
ListenCheck(g) ==
    /\ lpc[g] = "check"
    /\ lpc' = [lpc EXCEPT ![g] = IF is_listening THEN "listen" ELSE "exited"]
    /\ UNCHANGED <<shared, audio_queue, unfinished_tasks, processing_lock,
                   control, captured, ppc, loc, out, calls,
                   dequeued, begun, status>>

\* Mutant of ListenCaptured: the queue holds one item at most
\* (queue.Queue(maxsize=1)), so put waits while it is full.
ListenCaptured_BoundedQueue(g) ==
    /\ lpc[g] = "listen"
    /\ captured < MaxUtterances
    /\ Len(audio_queue) < 1
    /\ captured' = captured + 1
    /\ audio_queue' = Append(audio_queue, captured + 1)
    /\ unfinished_tasks' = unfinished_tasks + 1
    /\ lpc' = [lpc EXCEPT ![g] = "check"]
    /\ UNCHANGED <<shared, processing_lock, control, ppc, loc, out, calls,
                   dequeued, begun, status>>

\* recognizer.listen returns an audio segment; audio_queue.put(audio).
ListenCaptured(g) ==
    /\ lpc[g] = "listen"
    /\ captured < MaxUtterances
    /\ captured' = captured + 1
    /\ audio_queue' = Append(audio_queue, captured + 1)
    /\ unfinished_tasks' = unfinished_tasks + 1
    /\ lpc' = [lpc EXCEPT ![g] = "check"]
    /\ UNCHANGED <<shared, processing_lock, control, ppc, loc, out, calls,
                   dequeued, begun, status>>

\* sr.WaitTimeoutError: `continue`.
ListenTimeout(g) ==
    /\ lpc[g] = "listen"
    /\ lpc' = [lpc EXCEPT ![g] = "check"]
    /\ UNCHANGED <<shared, audio_queue, unfinished_tasks, processing_lock,
                   control, captured, ppc, loc, out, calls, dequeued, begun,
                   status>>

\* Any other exception of the microphone or of listen: logged, then
\* time.sleep(0.1), then the loop condition.
ListenFault(g) ==
    /\ lpc[g] = "listen"
    /\ lpc' = [lpc EXCEPT ![g] = "check"]
    /\ UNCHANGED <<shared, audio_queue, unfinished_tasks, processing_lock,
                   control, captured, ppc, loc, out, calls, dequeued, begun,
                   status>>

\* ------------------------------------------------------------------------
\* The stages, as called by _process_audio_queue

\* _recognize_speech: the text of recognize_google, or None on
\* sr.UnknownValueError and on sr.RequestError.
RecognitionOutcomes == {"text", "empty", "UnknownValueError", "RequestError"}

RecognizeSpeech(audio, outcome) ==
    CASE outcome = "text" -> Transcript(audio)
      [] outcome = "empty" -> EmptyText
      [] OTHER -> NoText

\* _detect_language: primary is the language langdetect.detect returned or
\* "LangDetectException"; fallback is "ok" (translator.detect returned fblang
\* with confidence conf) or "fault" (it raised).
PrimaryOutcomes == Langs \cup {"LangDetectException"}

\* Mutant of DetectLanguage: `>=` in place of `>` on line 72.
DetectLanguage_AcceptsThreshold(primary, fallback, fblang, conf) ==
    IF primary # "LangDetectException"
    THEN primary
    ELSE IF fallback = "ok"
         THEN IF conf >= detection_confidence THEN fblang ELSE NoLang
         ELSE NoLang

DetectLanguage(primary, fallback, fblang, conf) ==
    IF primary # "LangDetectException"
    THEN primary
    ELSE IF fallback = "ok"
         THEN IF conf > detection_confidence THEN fblang ELSE NoLang
         ELSE NoLang

\* _determine_target_language reads self.default_target_lang twice: once in
\* the comparison, once in the else branch's return.
PolicyCompare(source_lang, default) == source_lang = default

\* Mutant of PolicyReturn: the two return statements exchanged.
PolicyReturn_Swapped(same, default) == IF same THEN default ELSE "en"

PolicyReturn(same, default) == IF same THEN "en" ELSE default

\* _translate_text: outcome is what translator.translate does when called:
\* "changed" (a text other than the input), "same" (the input text again),
\* "empty" (an empty string) or "fault" (it raises).
TranslationOutcomes == {"changed", "same", "empty", "fault"}

TranslateCalled(source_lang, target_lang) == source_lang # target_lang

TranslateText(text, source_lang, target_lang, outcome) ==
    IF source_lang = target_lang
    THEN text
    ELSE CASE outcome = "changed" -> Rendering(text.id)
           [] outcome = "same" -> text
           [] outcome = "empty" -> EmptyText
           [] OTHER -> NoText

\* The condition of line 231 under which the target line is printed and the
\* translation spoken.
\* Mutant of SpeakCondition: `translated and` left out.
SpeakCondition_AnyResult(translated, detected_lang, target_lang) ==
    detected_lang # target_lang

\* Mutant of SpeakCondition: `and detected_lang != target_lang` left out.
SpeakCondition_NoLanguageCheck(translated, detected_lang, target_lang) ==
    Truthy(translated)

SpeakCondition(translated, detected_lang, target_lang) ==
    Truthy(translated) /\ detected_lang # target_lang

\* ------------------------------------------------------------------------
\* Processing thread of run g: _process_audio_queue

\* `while self.is_listening:`
ProcCheck(g) ==
    /\ ppc[g] = "check"
    /\ ppc' = [ppc EXCEPT ![g] = IF is_listening THEN "get" ELSE "exited"]
    /\ UNCHANGED <<shared, audio_queue, unfinished_tasks, processing_lock,
                   control, capture, loc, out, calls, dequeued, begun, status>>

\* Mutant of ProcGetEmpty: queue.Empty is raised although items are queued.
ProcGetEmpty_Spurious(g) ==
    /\ ppc[g] = "get"
    /\ ppc' = [ppc EXCEPT ![g] = "check"]
    /\ UNCHANGED <<shared, audio_queue, unfinished_tasks, processing_lock,
                   control, capture, loc, out, calls, dequeued, begun, status>>

\* audio_queue.get(timeout=0.5) raises queue.Empty: `continue`.
ProcGetEmpty(g) ==
    /\ ppc[g] = "get"
    /\ audio_queue = <<>>
    /\ ppc' = [ppc EXCEPT ![g] = "check"]
    /\ UNCHANGED <<shared, audio_queue, unfinished_tasks, processing_lock,
                   control, capture, loc, out, calls, dequeued, begun, status>>

\* audio_queue.get(timeout=0.5) returns the oldest item.
ProcGet(g) ==
    /\ ppc[g] = "get"
    /\ audio_queue # <<>>
    /\ loc' = [loc EXCEPT ![g].audio = Head(audio_queue),
                          ![g].ddeq = default_target_lang]
    /\ audio_queue' = Tail(audio_queue)
    /\ dequeued' = Append(dequeued, Head(audio_queue))
    /\ ppc' = [ppc EXCEPT ![g] = "lock"]
    /\ UNCHANGED <<shared, unfinished_tasks, processing_lock, control,
                   capture, out, calls, begun, status>>

\* Mutant of ProcAcquire: the cycle is entered without waiting for the lock.
ProcAcquire_NoLock(g) ==
    /\ ppc[g] = "lock"
    /\ processing_lock' = g
    /\ begun' = Append(begun, loc[g].audio)
    /\ ppc' = [ppc EXCEPT ![g] = "recognize"]
    /\ UNCHANGED <<shared, audio_queue, unfinished_tasks, control, capture,
                   loc, out, calls, dequeued, status>>

\* `with self.processing_lock:` acquires the lock.
ProcAcquire(g) ==
    /\ ppc[g] = "lock"
    /\ processing_lock = 0
    /\ processing_lock' = g
    /\ begun' = Append(begun, loc[g].audio)
    /\ ppc' = [ppc EXCEPT ![g] = "recognize"]
    /\ UNCHANGED <<shared, audio_queue, unfinished_tasks, control, capture,
                   loc, out, calls, dequeued, status>>

\* Mutant of Raised: the lock is taken with acquire() and released only
\* before task_done, so an exception leaves it held.
Raised_KeepsLock(g) ==
    /\ processing_lock' = processing_lock
    /\ status' = [status EXCEPT ![loc[g].audio] = "raised"]
    /\ loc' = [loc EXCEPT ![g] = NoLocals]
    /\ out' = [out EXCEPT ![g] = <<>>]
    /\ calls' = [calls EXCEPT ![g] = <<>>]
    /\ ppc' = [ppc EXCEPT ![g] = "check"]
    /\ UNCHANGED <<shared, audio_queue, unfinished_tasks, control, capture,
                   dequeued, begun>>

\* Mutant of Raised: the try statement encloses the loop, so an exception
\* ends the thread.
Raised_EndsLoop(g) ==
    /\ processing_lock' = 0
    /\ status' = [status EXCEPT ![loc[g].audio] = "raised"]
    /\ loc' = [loc EXCEPT ![g] = NoLocals]
    /\ out' = [out EXCEPT ![g] = <<>>]
    /\ calls' = [calls EXCEPT ![g] = <<>>]
    /\ ppc' = [ppc EXCEPT ![g] = "exited"]
    /\ UNCHANGED <<shared, audio_queue, unfinished_tasks, control, capture,
                   dequeued, begun>>

\* An exception leaves the `with` block (the lock is released) and reaches
\* `except Exception` of line 248: logged, `continue`.
Raised(g) ==
    /\ processing_lock' = 0
    /\ status' = [status EXCEPT ![loc[g].audio] = "raised"]
    /\ loc' = [loc EXCEPT ![g] = NoLocals]
    /\ out' = [out EXCEPT ![g] = <<>>]
    /\ calls' = [calls EXCEPT ![g] = <<>>]
    /\ ppc' = [ppc EXCEPT ![g] = "check"]
    /\ UNCHANGED <<shared, audio_queue, unfinished_tasks, control, capture,
                   dequeued, begun>>

\* Mutant of ProcRecognize: `if text:` left out, detection follows always.
ProcRecognize_NoTextCheck(g) ==
    /\ ppc[g] = "recognize"
    /\ \E outcome \in RecognitionOutcomes :
         /\ loc' = [loc EXCEPT ![g].text = RecognizeSpeech(loc[g].audio, outcome)]
         /\ calls' = [calls EXCEPT ![g] =
                        Append(@, Call("recognize", NoText, NoLang))]
         /\ ppc' = [ppc EXCEPT ![g] = "detect"]
    /\ UNCHANGED <<shared, audio_queue, unfinished_tasks, processing_lock,
                   control, capture, out, dequeued, begun, status>>

\* text = self._recognize_speech(audio); `if text:`
ProcRecognize(g) ==
    /\ ppc[g] = "recognize"
    /\ \E outcome \in RecognitionOutcomes :
         LET text == RecognizeSpeech(loc[g].audio, outcome) IN
           /\ loc' = [loc EXCEPT ![g].text = text]
           /\ calls' = [calls EXCEPT ![g] =
                          Append(@, Call("recognize", NoText, NoLang))]
           /\ ppc' = [ppc EXCEPT ![g] = IF Truthy(text) THEN "detect" ELSE "done"]
    /\ UNCHANGED <<shared, audio_queue, unfinished_tasks, processing_lock,
                   control, capture, out, dequeued, begun, status>>

\* recognize_google raises something other than the two exceptions
\* _recognize_speech catches.
ProcRecognizeRaise(g) ==
    /\ ppc[g] = "recognize"
    /\ Raised(g)

\* detected_lang = self._detect_language(text)
ProcDetect(g) ==
    /\ ppc[g] = "detect"
    /\ \E primary \in PrimaryOutcomes :
         \E fallback \in IF primary = "LangDetectException"
                         THEN {"ok", "fault"} ELSE {"-"} :
           \E fblang \in IF fallback = "ok" THEN Langs ELSE {NoLang} :
             \E conf \in IF fallback = "ok" THEN Confidences ELSE {0} :
               /\ loc' = [loc EXCEPT
                            ![g].primary = primary,
                            ![g].fallback = fallback,
                            ![g].fblang = fblang,
                            ![g].conf = conf,
                            ![g].detected =
                                DetectLanguage(primary, fallback, fblang, conf)]
               /\ calls' = [calls EXCEPT ![g] =
                              IF fallback = "-"
                              THEN Append(@, Call("detect", loc[g].text, NoLang))
                              ELSE @ \o <<Call("detect", loc[g].text, NoLang),
                                          Call("fallback", loc[g].text, NoLang)>>]
    /\ ppc' = [ppc EXCEPT ![g] = "detected"]
    /\ UNCHANGED <<shared, audio_queue, unfinished_tasks, processing_lock,
                   control, capture, out, dequeued, begun, status>>

\* langdetect.detect raises something other than LangDetectException.
ProcDetectRaise(g) ==
    /\ ppc[g] = "detect"
    /\ Raised(g)

\* Mutant of ProcDetected: the assignment of line 218 left out.
ProcDetected_KeepsLast(g) ==
    /\ ppc[g] = "detected"
    /\ last_detected_lang' = last_detected_lang
    /\ IF loc[g].detected # NoLang
       THEN /\ loc' = [loc EXCEPT ![g].primary = "-", ![g].fallback = "-",
                                  ![g].fblang = NoLang, ![g].conf = 0]
            /\ ppc' = [ppc EXCEPT ![g] = "policy"]
            /\ out' = out
       ELSE /\ loc' = loc
            /\ out' = [out EXCEPT ![g] =
                         @ \o <<Line("unknown_language", loc[g].text),
                                Line("could_not_detect", NoText),
                                Line("separator", NoText)>>]
            /\ ppc' = [ppc EXCEPT ![g] = "done"]
    /\ UNCHANGED <<is_listening, default_target_lang, audio_queue,
                   unfinished_tasks, processing_lock, control, capture,
                   calls, dequeued, begun, status>>

\* Mutant of ProcDetected: the else branch prints the notification without
\* the transcribed text.
ProcDetected_NoText(g) ==
    /\ ppc[g] = "detected"
    /\ IF loc[g].detected # NoLang
       THEN /\ last_detected_lang' = loc[g].detected
            /\ loc' = [loc EXCEPT ![g].primary = "-", ![g].fallback = "-",
                                  ![g].fblang = NoLang, ![g].conf = 0]
            /\ ppc' = [ppc EXCEPT ![g] = "policy"]
            /\ out' = out
       ELSE /\ last_detected_lang' = last_detected_lang
            /\ loc' = loc
            /\ out' = [out EXCEPT ![g] =
                         @ \o <<Line("unknown_language", NoText),
                                Line("could_not_detect", NoText),
                                Line("separator", NoText)>>]
            /\ ppc' = [ppc EXCEPT ![g] = "done"]
    /\ UNCHANGED <<is_listening, default_target_lang, audio_queue,
                   unfinished_tasks, processing_lock, control, capture,
                   calls, dequeued, begun, status>>

\* `if detected_lang:` the assignment of line 218, or the three lines of
\* the else branch.  What _detect_language saw is gone once a language came
\* back; it is kept next to an absent result.
ProcDetected(g) ==
    /\ ppc[g] = "detected"
    /\ IF loc[g].detected # NoLang
       THEN /\ last_detected_lang' = loc[g].detected
            /\ loc' = [loc EXCEPT ![g].primary = "-", ![g].fallback = "-",
                                  ![g].fblang = NoLang, ![g].conf = 0]
            /\ ppc' = [ppc EXCEPT ![g] = "policy"]
            /\ out' = out
       ELSE /\ last_detected_lang' = last_detected_lang
            /\ loc' = loc
            /\ out' = [out EXCEPT ![g] =
                         @ \o <<Line("unknown_language", loc[g].text),
                                Line("could_not_detect", NoText),
                                Line("separator", NoText)>>]
            /\ ppc' = [ppc EXCEPT ![g] = "done"]
    /\ UNCHANGED <<is_listening, default_target_lang, audio_queue,
                   unfinished_tasks, processing_lock, control, capture,
                   calls, dequeued, begun, status>>

\* _determine_target_language: `if source_lang == self.default_target_lang`
ProcPolicyCompare(g) ==
    /\ ppc[g] = "policy"
    /\ loc' = [loc EXCEPT
                 ![g].same = PolicyCompare(loc[g].detected, default_target_lang),
                 ![g].dcmp = default_target_lang]
    /\ ppc' = [ppc EXCEPT ![g] = "policy_return"]
    /\ UNCHANGED <<shared, audio_queue, unfinished_tasks, processing_lock,
                   control, capture, out, calls, dequeued, begun, status>>

\* _determine_target_language: `return 'en'` / `return self.default_target_lang`
ProcPolicyReturn(g) ==
    /\ ppc[g] = "policy_return"
    /\ loc' = [loc EXCEPT
                 ![g].target = PolicyReturn(loc[g].same, default_target_lang),
                 ![g].dret = default_target_lang]
    /\ ppc' = [ppc EXCEPT ![g] = "translate"]
    /\ UNCHANGED <<shared, audio_queue, unfinished_tasks, processing_lock,
                   control, capture, out, calls, dequeued, begun, status>>

\* translated = self._translate_text(text, detected_lang, target_lang)
ProcTranslate(g) ==
    /\ ppc[g] = "translate"
    /\ \E outcome \in IF TranslateCalled(loc[g].detected, loc[g].target)
                      THEN TranslationOutcomes ELSE {"-"} :
         /\ loc' = [loc EXCEPT
                      ![g].translation = outcome,
                      ![g].translated =
                          TranslateText(loc[g].text, loc[g].detected,
                                        loc[g].target, outcome)]
         /\ calls' = [calls EXCEPT ![g] =
                        IF outcome = "-" THEN @
                        ELSE Append(@, Call("translate", loc[g].text,
                                            loc[g].target))]
    /\ ppc' = [ppc EXCEPT ![g] = "report"]
    /\ UNCHANGED <<shared, audio_queue, unfinished_tasks, processing_lock,
                   control, capture, out, dequeued, begun, status>>

\* Lines 227-237 up to the call of _speak_text.
ProcReport(g) ==
    /\ ppc[g] = "report"
    /\ IF SpeakCondition(loc[g].translated, loc[g].detected, loc[g].target)
       THEN /\ out' = [out EXCEPT ![g] =
                         @ \o <<Line("source", loc[g].text),
                                Line("target", loc[g].translated)>>]
            /\ ppc' = [ppc EXCEPT ![g] = "speak"]
       ELSE /\ out' = [out EXCEPT ![g] =
                         @ \o <<Line("source", loc[g].text),
                                Line("no_translation_needed", NoText),
                                Line("separator", NoText)>>]
            /\ ppc' = [ppc EXCEPT ![g] = "done"]
    /\ UNCHANGED <<shared, audio_queue, unfinished_tasks, processing_lock,
                   control, capture, loc, calls, dequeued, begun, status>>

\* A print of lines 230-237 raises (a closed or ASCII-only stdout).
ProcReportRaise(g) ==
    /\ ppc[g] = "report"
    /\ Raised(g)

\* Mutant of ProcSpeak: _speak_text has no try statement, a fault of the
\* engine reaches `except Exception` of line 248.
ProcSpeak_FaultPropagates(g) ==
    /\ ppc[g] = "speak"
    /\ \/ /\ loc' = [loc EXCEPT ![g].spoke = "spoken"]
          /\ calls' = [calls EXCEPT ![g] =
                         Append(@, Call("speak", loc[g].translated,
                                        loc[g].target))]
          /\ out' = [out EXCEPT ![g] = Append(@, Line("separator", NoText))]
          /\ ppc' = [ppc EXCEPT ![g] = "done"]
          /\ UNCHANGED <<shared, audio_queue, unfinished_tasks,
                         processing_lock, control, capture, dequeued, begun,
                         status>>
       \/ Raised(g)

\* self._speak_text(translated, target_lang), whose faults are caught inside
\* it, then the separator line.
ProcSpeak(g) ==
    /\ ppc[g] = "speak"
    /\ \E result \in {"spoken", "fault"} :
         loc' = [loc EXCEPT ![g].spoke = result]
    /\ calls' = [calls EXCEPT ![g] =
                   Append(@, Call("speak", loc[g].translated, loc[g].target))]
    /\ out' = [out EXCEPT ![g] = Append(@, Line("separator", NoText))]
    /\ ppc' = [ppc EXCEPT ![g] = "done"]
    /\ UNCHANGED <<shared, audio_queue, unfinished_tasks, processing_lock,
                   control, capture, dequeued, begun, status>>

\* self.audio_queue.task_done(), the end of the `with` block, and back to
\* the loop condition.
ProcDone(g) ==
    /\ ppc[g] = "done"
    /\ unfinished_tasks' = unfinished_tasks - 1
    /\ processing_lock' = 0
    /\ status' = [status EXCEPT ![loc[g].audio] = "completed"]
    /\ loc' = [loc EXCEPT ![g] = NoLocals]
    /\ out' = [out EXCEPT ![g] = <<>>]
    /\ calls' = [calls EXCEPT ![g] = <<>>]
    /\ ppc' = [ppc EXCEPT ![g] = "check"]
    /\ UNCHANGED <<shared, audio_queue, control, capture, dequeued, begun>>

\* ------------------------------------------------------------------------
Control ==
    \/ StartTranslation
    \/ MainLoopExit
    \/ KeyboardInterrupt
    \/ JoinReturn
    \/ StopTranslation
    \/ \E l \in Langs : SetDefaultTargetLanguage(l)

Listen(g) ==
    \/ ListenCheck(g)
    \/ ListenCaptured(g)
    \/ ListenTimeout(g)
    \/ ListenFault(g)

Process(g) ==
    \/ ProcCheck(g)
    \/ ProcGetEmpty(g)
    \/ ProcGet(g)
    \/ ProcAcquire(g)
    \/ ProcRecognize(g)
    \/ ProcRecognizeRaise(g)
    \/ ProcDetect(g)
    \/ ProcDetectRaise(g)
    \/ ProcDetected(g)
    \/ ProcPolicyCompare(g)
    \/ ProcPolicyReturn(g)
    \/ ProcTranslate(g)
    \/ ProcReport(g)
    \/ ProcReportRaise(g)
    \/ ProcSpeak(g)
    \/ ProcDone(g)

Next ==
    \/ Control
    \/ \E g \in Runs : Listen(g)
    \/ \E g \in Runs : Process(g)

Spec == Init /\ [][Next]_vars

\* One call of start_translation only: once the flag is cleared it stays
\* cleared.  Threads are scheduled fairly and every blocking call returns.
OneRun == starts' <= 1

Fairness ==
    /\ \A g \in Runs : WF_vars(Listen(g))
    /\ \A g \in Runs : WF_vars(Process(g))

OneRunSpec == Init /\ [][Next /\ OneRun]_vars /\ Fairness

\* ------------------------------------------------------------------------
\* Vocabulary of the properties

\* Thread g is between the start of _recognize_speech and task_done.
MidPipeline(g) ==
    ppc[g] \in {"recognize", "detect", "detected", "policy", "policy_return",
                "translate", "report", "speak", "done"}

Made(g, svc) == \E i \in 1..Len(calls[g]) : calls[g][i].svc = svc
Printed(g, kind) == \E i \in 1..Len(out[g]) : out[g][i].line = kind

Increasing(seq) == \A i, j \in 1..Len(seq) : i < j => seq[i] < seq[j]

InQueue(u) == \E i \in 1..Len(audio_queue) : audio_queue[i] = u
Begun(u) == \E i \in 1..Len(begun) : begun[i] = u

Ended(pc) == pc \in {"unborn", "exited"}
AllEnded == \A g \in Runs : Ended(lpc[g]) /\ Ended(ppc[g])

\* ------------------------------------------------------------------------
\* C1: at most one utterance is mid-pipeline at any time, and the thread
\* that is mid-pipeline holds processing_lock for the whole span.
C1_MutualExclusion ==
    /\ \A g, h \in Runs : MidPipeline(g) /\ MidPipeline(h) => g = h
    /\ \A g \in Runs : MidPipeline(g) => processing_lock = g

\* Two processing threads each hold an utterance; one is mid-pipeline, the
\* other waits for the lock.
C1_Witness ==
    \E g, h \in Runs :
        /\ g # h
        /\ MidPipeline(g)
        /\ ppc[h] = "lock"
        /\ loc[g].audio # loc[h].audio

\* C2: utterances are dequeued in the order they were enqueued, and their
\* cycles start in that order (utterances are numbered as they are enqueued).
C2_Fifo == Increasing(dequeued) /\ Increasing(begun)

C5_Shutdown ==
    /\ (~is_listening) ~> AllEnded
    /\ [][\A g \in Runs :
            ~is_listening =>
                /\ (lpc'[g] = "listen" => lpc[g] = "listen")
                /\ (ppc'[g] = "get" => ppc[g] = "get")]_vars

\* Both threads have ended after a stop that caught the capture thread in a
\* listen attempt and the processing thread in a cycle.
C5_Witness ==
    /\ starts = 1
    /\ ~is_listening
    /\ AllEnded
    /\ captured > 0
    /\ audio_queue # <<>>
    /\ Len(begun) > 0

\* C6: the resolved target is "en" when the source equals the default and
\* the default otherwise, the default being the one both reads saw.
C6_LanguagePolicy ==
    \A g \in Runs :
        (loc[g].target # NoLang /\ loc[g].dcmp = loc[g].dret) =>
            loc[g].target = IF loc[g].detected = loc[g].dcmp
                            THEN "en" ELSE loc[g].dcmp

\* Source "es" with default "es" has been resolved to "en".
C6_Witness ==
    \E g \in Runs :
        /\ loc[g].detected = "es"
        /\ loc[g].dcmp = "es"
        /\ loc[g].dret = "es"
        /\ loc[g].target = "en"

\* C7: _detect_language returns the primary detector's language without
\* calling the fallback; after a LangDetectException it returns the
\* fallback's language iff the confidence exceeds the threshold; a fault
\* of the fallback gives None, returned and not raised.
C7_DetectionChain ==
    \A g \in Runs :
        LET l == loc[g] IN
        /\ l.primary \in Langs =>
              l.detected = l.primary /\ ~Made(g, "fallback")
        /\ (l.primary = "LangDetectException" /\ l.fallback = "ok") =>
              /\ Made(g, "fallback")
              /\ l.conf > detection_confidence => l.detected = l.fblang
              /\ l.conf <= detection_confidence => l.detected = NoLang
        /\ l.fallback = "fault" =>
              l.detected = NoLang /\ ppc[g] \in {"detected", "done"}

\* The fallback answered with a confidence equal to the threshold and the
\* result is None.
C7_Witness ==
    \E g \in Runs :
        /\ ppc[g] = "detected"
        /\ loc[g].fallback = "ok"
        /\ loc[g].conf = detection_confidence
        /\ loc[g].detected = NoLang

\* C8: when the detected language equals the resolved target, the
\* translation service and the synthesis are not called and the text
\* handed on is the transcribed text.
C8_SameLanguage ==
    \A g \in Runs :
        (loc[g].target # NoLang /\ loc[g].detected = loc[g].target) =>
            /\ ~Made(g, "translate")
            /\ ~Made(g, "speak")
            /\ ppc[g] # "speak"
            /\ ppc[g] \in {"report", "done"} => loc[g].translated = loc[g].text

\* A cycle with detected = target = "en" has printed its result.
C8_Witness ==
    \E g \in Runs :
        /\ ppc[g] = "done"
        /\ loc[g].detected = "en"
        /\ loc[g].target = "en"
        /\ Printed(g, "no_translation_needed")

\* C9: a transcribed utterance whose detection came back None gets the
\* unknown-language notification with its transcribed text, no translation
\* call and no synthesis call, and its cycle runs to its end.
C9_UnknownLanguage ==
    \A g \in Runs :
        (Truthy(loc[g].text) /\ loc[g].detected = NoLang
            /\ ppc[g] \notin {"detect", "detected"}) =>
            /\ ppc[g] = "done"
            /\ out[g] = <<Line("unknown_language", Transcript(loc[g].audio)),
                          Line("could_not_detect", NoText),
                          Line("separator", NoText)>>
            /\ ~Made(g, "translate")
            /\ ~Made(g, "speak")

\* The fallback's confidence was 0.5 and the notification has been printed.
C9_Witness ==
    \E g \in Runs :
        /\ ppc[g] = "done"
        /\ loc[g].primary = "LangDetectException"
        /\ loc[g].conf = 50
        /\ Printed(g, "unknown_language")

\* C10: when the translation service failed, the cycle prints the source
\* text with a translation-failure notification, which is not the line of
\* the no-translation-needed outcome, and does not call the synthesis.
C10_TranslationFailure ==
    \A g \in Runs :
        (ppc[g] = "done" /\ loc[g].translation = "fault") =>
            /\ Printed(g, "source")
            /\ Printed(g, "translation_failed")
            /\ ~Printed(g, "no_translation_needed")
            /\ ~Made(g, "speak")

\* C11: an utterance for which recognition gave no text goes straight to
\* the end of its cycle: the recognition call is the only call, nothing is
\* printed, last_detected_lang keeps its value during the whole cycle, and
\* the thread is back at the loop condition afterwards.
C11_RecognitionAbandoned ==
    /\ [](\A g \in Runs :
            (MidPipeline(g) /\ ppc[g] # "recognize" /\ ~Truthy(loc[g].text)) =>
                /\ ppc[g] = "done"
                /\ out[g] = <<>>
                /\ calls[g] = <<Call("recognize", NoText, NoLang)>>)
    /\ [][\A g \in Runs :
            (ppc[g] = "recognize" \/ (ppc[g] = "done" /\ ~Truthy(loc[g].text)))
                => /\ last_detected_lang' = last_detected_lang
                   /\ (ppc[g] = "done" /\ ppc'[g] # "done") => ppc'[g] = "check"]_vars

\* The second cycle found no text; the language detected in an earlier
\* cycle is still stored.
C11_Witness ==
    \E g \in Runs :
        /\ ppc[g] = "done"
        /\ loc[g].text = NoText
        /\ out[g] = <<>>
        /\ last_detected_lang # NoLang

\* C12: whether the synthesis succeeded or faulted, the step that leaves
\* the speak stage leads to the end of the cycle with the source line, the
\* target line and the separator printed, and the cycle then ends with
\* task_done and the release of the lock.
C12_SynthesisFaultSwallowed ==
    /\ [](\A g \in Runs :
            loc[g].spoke # "-" =>
                /\ ppc[g] = "done"
                /\ processing_lock = g
                /\ out[g] = <<Line("source", loc[g].text),
                              Line("target", loc[g].translated),
                              Line("separator", NoText)>>)
    /\ [][\A g \in Runs :
            /\ (ppc[g] = "speak" /\ ppc'[g] # "speak") =>
                  ppc'[g] = "done" /\ loc'[g].spoke \in {"spoken", "fault"}
            /\ (loc[g].spoke # "-" /\ ppc'[g] # ppc[g]) =>
                  /\ ppc'[g] = "check"
                  /\ processing_lock' = 0
                  /\ unfinished_tasks' = unfinished_tasks - 1
                  /\ status'[loc[g].audio] = "completed"]_vars

\* The synthesis faulted and the cycle stands at its end, result printed.
C12_Witness ==
    \E g \in Runs :
        /\ ppc[g] = "done"
        /\ loc[g].spoke = "fault"
        /\ Printed(g, "target")
        /\ Printed(g, "separator")

\* C13: the target of an utterance is the policy's result for the default
\* target language that was configured when the utterance was dequeued.
C13_ReconfigurationBoundary ==
    \A g \in Runs :
        loc[g].target # NoLang =>
            loc[g].target = IF loc[g].detected = loc[g].ddeq
                            THEN "en" ELSE loc[g].ddeq

\* C14: a capture enqueues exactly its one utterance and nothing else adds
\* to the queue; every end of a listen attempt leads back to the loop
\* condition, which is left for "exited" only when the flag is off; and a
\* capture thread that has an utterance can always enqueue it.
C14_CaptureDiscipline ==
    /\ [](\A g \in Runs :
            (lpc[g] = "listen" /\ captured < MaxUtterances) =>
                ENABLED ListenCaptured(g))
    /\ [][/\ captured' \in {captured, captured + 1}
          /\ captured' = captured + 1 =>
                /\ audio_queue' = Append(audio_queue, captured')
                /\ \E g \in Runs : lpc[g] = "listen" /\ lpc'[g] = "check"
          /\ captured' = captured =>
                \/ audio_queue' = audio_queue
                \/ audio_queue # <<>> /\ audio_queue' = Tail(audio_queue)
          /\ \A g \in Runs :
                /\ (lpc[g] = "listen" /\ lpc'[g] # "listen") => lpc'[g] = "check"
                /\ (lpc'[g] = "exited" /\ lpc[g] # "exited") =>
                      lpc[g] = "check" /\ ~is_listening
                /\ (lpc[g] = "check" /\ is_listening /\ lpc'[g] # "check") =>
                      lpc'[g] = "listen"]_vars

\* The second utterance was enqueued while the first was mid-pipeline, and
\* the capture thread is in its next listen attempt.
C14_Witness ==
    /\ audio_queue = <<2>>
    /\ \E g \in Runs : lpc[g] = "listen"
    /\ \E h \in Runs : MidPipeline(h) /\ loc[h].audio = 1

\* C15 as claimed: in a cycle that has printed its source line, the
\* synthesis is called iff the translated text is a text other than the
\* transcribed one.
C15_SpeakIffChanged ==
    \A g \in Runs :
        (ppc[g] = "done" /\ Printed(g, "source")) =>
            (Made(g, "speak") <=>
                (Truthy(loc[g].translated) /\ loc[g].translated # loc[g].text))

\* C15 as amended: the synthesis is called iff the translation is a
\* non-empty text and the detected language differs from the target; it is
\* called with the translated text and the target language, after the
\* target line was printed.
C15_SpeakIffTranslated ==
    \A g \in Runs :
        /\ (ppc[g] = "done" /\ Printed(g, "source")) =>
              (Made(g, "speak") <=>
                  (Truthy(loc[g].translated) /\ loc[g].detected # loc[g].target))
        /\ \A i \in 1..Len(calls[g]) :
              calls[g][i].svc = "speak" =>
                  /\ calls[g][i].text = loc[g].translated
                  /\ calls[g][i].lang = loc[g].target
                  /\ Printed(g, "target")
        /\ ppc[g] = "speak" => Printed(g, "target") /\ ~Made(g, "speak")

\* The translation service returned the transcribed text unchanged and the
\* synthesis has been called with it.
C15_Witness ==
    \E g \in Runs :
        /\ ppc[g] = "done"
        /\ loc[g].translation = "same"
        /\ loc[g].translated = loc[g].text
        /\ Made(g, "speak")

\* C16: the completions (puts less unfinished tasks) are the dequeues less
\* the utterances whose cycle is under way, so that they equal the dequeues
\* whenever no cycle is under way; and a completed utterance was dequeued.
C16_CompletionAccounting ==
    /\ captured - unfinished_tasks =
          Len(dequeued) - Cardinality({g \in Runs : loc[g].audio # 0})
    /\ \A u \in Utterances :
          status[u] = "completed" =>
              \E i \in 1..Len(dequeued) : dequeued[i] = u

\* C17: at most one capture thread and at most one processing thread are
\* alive.
C17_ContextCount ==
    /\ Cardinality({g \in Runs : ~Ended(lpc[g])}) <= 1
    /\ Cardinality({g \in Runs : ~Ended(ppc[g])}) <= 1

\* C18: last_detected_lang is None at first; it changes only in the step
\* that follows a successful detection and becomes the language detected in
\* that cycle, which it stays to the end of the cycle; and the policy's
\* comparison and result are computed from the language detected in the
\* cycle.
C18_LastDetectedLanguage ==
    /\ last_detected_lang = NoLang
    /\ [](\A g \in Runs :
            /\ (ppc[g] \in {"policy", "policy_return", "translate", "report",
                            "speak", "done"} /\ loc[g].detected # NoLang) =>
                  last_detected_lang = loc[g].detected
            /\ loc[g].target # NoLang =>
                  /\ loc[g].same = (loc[g].detected = loc[g].dcmp)
                  /\ loc[g].target = IF loc[g].same THEN "en" ELSE loc[g].dret)
    /\ [][/\ last_detected_lang' # last_detected_lang =>
                \E g \in Runs : /\ ppc[g] = "detected"
                                /\ ppc'[g] = "policy"
                                /\ loc[g].detected # NoLang
                                /\ last_detected_lang' = loc[g].detected
          /\ \A g \in Runs :
                (ppc[g] = "detected" /\ ppc'[g] = "policy") =>
                    last_detected_lang' = loc[g].detected]_vars

\* A cycle with a text and no detected language stands at its end, and the
\* language of an earlier cycle is still stored.
C18_Witness ==
    \E g \in Runs :
        /\ ppc[g] = "done"
        /\ Truthy(loc[g].text)
        /\ loc[g].detected = NoLang
        /\ last_detected_lang # NoLang

C20_PolicyUnderReconfiguration ==
    \A g \in Runs :
        (loc[g].target # NoLang /\ loc[g].detected # "en") =>
            loc[g].target # loc[g].detected

====
